---- MODULE Spec2Model ----
(***************************************************************************)
(* Dependency graph engine of the CI agent: DAGAnalyzer                    *)
(* (agent/analyzers/dag_analyzer.py) and JobParallelizer                   *)
(* (agent/fixers/parallelizer.py).                                         *)
(*                                                                         *)
(* A workflow is the parsed job map: a sequence of job records in          *)
(* declaration order (a Python dict keeps insertion order).  A job has a   *)
(* name, a raw `needs` declaration and a step list, and a `node`: the      *)
(* object the name is bound to, named after the first name bound to it.    *)
(* file_content is the text of the workflow file, represented by the job  *)
(* map it parses to.  The graph library (networkx) is modelled by what the *)
(* calls made by the code do.                                              *)
(***************************************************************************)
EXTENDS Naturals, Integers, Sequences, FiniteSets, TLC

VARIABLES workflow, file_content, platform, analysis, schedule, optimization, rerun

vars == <<workflow, file_content, platform, analysis, schedule, optimization, rerun>>

-----------------------------------------------------------------------------
(* Bounds of the model *)

MaxJobs == 3

MaxDeps == 4

MaxTimedJobs == 3

MaxTimedDeps == 3

MaxWideJobs == 5

MaxWideDeps == 4

MaxInterleavedJobs == 3

MaxInterleavedDeps == 3

MaxFormJobs == 2

MaxFormItems == 2

MaxStepJobs == 2

MaxSteps == 2

MaxSharedJobs == 3

MaxSharedDeps == 3

MaxFixJobs == 3

MaxFixDeps == 4

MaxFixChainJobs == 4

MaxFixChainDeps == 5

(* Job names in alphabetical order; a job map declares a prefix of them.   *)
Names == <<"a", "b", "c", "d", "e", "f">>

(* A name that is never a job: a dangling reference.                       *)
Dangling == "zz"

-----------------------------------------------------------------------------
(* Sequence helpers *)

Range(s) == {s[i] : i \in 1..Len(s)}

RECURSIVE SelectIn(_, _)
SelectIn(s, S) ==
    IF s = <<>> THEN <<>>
    ELSE IF Head(s) \in S THEN <<Head(s)>> \o SelectIn(Tail(s), S)
         ELSE SelectIn(Tail(s), S)

RECURSIVE SelectNotIn(_, _)
SelectNotIn(s, S) ==
    IF s = <<>> THEN <<>>
    ELSE IF Head(s) \notin S THEN <<Head(s)>> \o SelectNotIn(Tail(s), S)
         ELSE SelectNotIn(Tail(s), S)

(* First occurrences of the elements of s, in order (dict/adjacency keys). *)
RECURSIVE Dedup(_)
Dedup(s) ==
    IF s = <<>> THEN <<>>
    ELSE <<Head(s)>> \o Dedup(SelectNotIn(Tail(s), {Head(s)}))

RECURSIVE Flatten(_)
Flatten(ss) == IF ss = <<>> THEN <<>> ELSE Head(ss) \o Flatten(Tail(ss))

RECURSIVE SumSeq(_)
SumSeq(s) == IF s = <<>> THEN 0 ELSE Head(s) + SumSeq(Tail(s))

SetMax(S) == CHOOSE x \in S : \A y \in S : y <= x

IndexIn(seq, x) == CHOOSE i \in 1..Len(seq) : seq[i] = x

(* The order of Python strings (`job1 < job2`, sorted(...)) on the names   *)
(* that occur in the job maps: the job names, the special keys of a GitLab *)
(* file and the dangling name.                                             *)
Alphabetical ==
    <<"a", "b", "c", "d", "default", "e", "f", "include", "stages", "variables",
      "workflow", "zz">>

Rank(n) ==
    IF n \in Range(Alphabetical) THEN IndexIn(Alphabetical, n)
    ELSE Len(Alphabetical) + 1

-----------------------------------------------------------------------------
(* Job records *)

JobNames(wf) == [i \in 1..Len(wf) |-> wf[i].name]

JobSet(wf) == {wf[i].name : i \in 1..Len(wf)}

JobOf(wf, n) == wf[CHOOSE i \in 1..Len(wf) : wf[i].name = n]

(* The names m and n of a job map are bound to one object (`n: *m`).       *)
SameObject(wf, m, n) == JobOf(wf, m).node = JobOf(wf, n).node

(* DAGAnalyzer._parse_needs: string | list | dict | anything else.  A list *)
(* item is a name string ("str"), an entry with a `job` field ("job") or   *)
(* something else, which is skipped.                                       *)
RECURSIVE ParseListItems(_)
ParseListItems(items) ==
    IF items = <<>> THEN <<>>
    ELSE IF Head(items).kind \in {"str", "job"}
         THEN <<Head(items).name>> \o ParseListItems(Tail(items))
         ELSE ParseListItems(Tail(items))

ParseNeeds(needs) ==
    CASE needs.form = "str"  -> <<needs.items[1].name>>
      [] needs.form = "list" -> ParseListItems(needs.items)
      [] needs.form = "dict" -> [i \in 1..Len(needs.items) |-> needs.items[i].name]
      [] OTHER               -> <<>>

(* job_data.get('needs', []): a job without the key declares the empty list *)
NeedsOrDefault(job) ==
    IF job.needs.form = "absent" THEN [form |-> "list", items |-> <<>>]
    ELSE job.needs

(* Seconds per step, and the bonus of each keyword class.                  *)
StepBase == 30

SetupBonus == 30

InstallBonus == 60

BuildBonus == 120

TestBonus == 90

DefaultDuration == 60

(* A step is [shape, keys, uses, run, text]: whether it is a mapping       *)
(* ("dict") or not ("other"), which of the keys `uses` and `run` it has,   *)
(* the keywords its action reference step['uses'] contains, the keywords   *)
(* its lowercased command step['run'].lower() contains, and the keywords   *)
(* its lowercased serialisation str(step).lower() contains.                *)
Step(shape, keys, uses, run, text) ==
    [shape |-> shape, keys |-> keys, uses |-> uses, run |-> run, text |-> text]

(* A variant in which every keyword class a step matches adds its bonus.   *)
StepBonusSummed(step) ==
    IF step.shape # "dict" THEN 0
    ELSE IF "uses" \in step.keys
    THEN (IF step.uses \cap {"setup-", "cache"} # {} THEN SetupBonus ELSE 0)
           + (IF step.uses \cap {"build", "test"} # {} THEN BuildBonus ELSE 0)
    ELSE IF "run" \in step.keys
    THEN (IF step.run \cap {"npm install", "yarn install"} # {} THEN InstallBonus ELSE 0)
           + (IF "build" \in step.run THEN BuildBonus ELSE 0)
           + (IF "test" \in step.run THEN TestBonus ELSE 0)
    ELSE 0

(* The bonus one step adds in _estimate_job_duration: the command is       *)
(* looked at only when the step has no action reference, and in each text  *)
(* the first keyword class that matches counts.                            *)
StepBonus(step) ==
    IF step.shape # "dict" THEN 0
    ELSE IF "uses" \in step.keys
    THEN IF step.uses \cap {"setup-", "cache"} # {} THEN SetupBonus
         ELSE IF step.uses \cap {"build", "test"} # {} THEN BuildBonus
         ELSE 0
    ELSE IF "run" \in step.keys
    THEN IF step.run \cap {"npm install", "yarn install"} # {} THEN InstallBonus
         ELSE IF "build" \in step.run THEN BuildBonus
         ELSE IF "test" \in step.run THEN TestBonus
         ELSE 0
    ELSE 0

(* DAGAnalyzer._estimate_job_duration *)
EstimateJobDuration(steps) ==
    Len(steps) * StepBase + SumSeq([i \in 1..Len(steps) |-> StepBonus(steps[i])])

(* A variant that looks for "deploy" only.                                 *)
CanParallelizeDeployOnly(steps) ==
    ~ \E i \in 1..Len(steps) :
         /\ steps[i].shape = "dict"
         /\ "deploy" \in steps[i].text

(* DAGAnalyzer._can_parallelize: only the steps that are mappings are      *)
(* looked at.                                                              *)
CanParallelize(steps) ==
    ~ \E i \in 1..Len(steps) :
         /\ steps[i].shape = "dict"
         /\ steps[i].text \cap {"deploy", "release"} # {}

(* isinstance(job_data, dict): the job records that are mappings.  A job   *)
(* record has the shape "dict" when it is a mapping, "sequence" when it is *)
(* a string or a list in which `'needs' in job` is false, and "other" for  *)
(* anything else (a number, None, a string or a list that holds `needs`).  *)
DictJobs(wf) == SelectSeq(wf, LAMBDA job : job.shape = "dict")

(* special_keys: the top-level keys of a GitLab file that are not jobs.    *)
SpecialKeys == {"stages", "variables", "default", "include", "workflow"}

(* `key not in special_keys and isinstance(value, dict)`: the top-level    *)
(* entries of a GitLab file that are jobs.                                 *)
GitlabJobs(wf) ==
    SelectSeq(wf, LAMBDA job : job.name \notin SpecialKeys /\ job.shape = "dict")

(* DAGAnalyzer._extract_jobs: the Job objects, in declaration order; a job *)
(* record that is not a mapping is skipped, and so is, on GitLab, an entry *)
(* under a special key.  On GitLab neither steps nor a duration are        *)
(* extracted (duration is None).  For any other platform neither branch is *)
(* taken and no job is extracted.                                          *)
ExtractJobs(wf, pf) ==
    LET w == IF pf = "gitlab_ci" THEN GitlabJobs(wf) ELSE DictJobs(wf) IN
    IF pf = "github_actions"
    THEN [i \in 1..Len(w) |->
            [name |-> w[i].name,
             needs |-> ParseNeeds(NeedsOrDefault(w[i])),
             steps |-> w[i].steps,
             estimated_duration |->
                 [none |-> FALSE, value |-> EstimateJobDuration(w[i].steps)],
             can_parallelize |-> CanParallelize(w[i].steps)]]
    ELSE IF pf = "gitlab_ci"
    THEN [i \in 1..Len(w) |->
            [name |-> w[i].name,
             needs |-> ParseNeeds(NeedsOrDefault(w[i])),
             steps |-> <<>>,
             estimated_duration |-> [none |-> TRUE, value |-> 0],
             can_parallelize |-> TRUE]]
    ELSE <<>>

(* `job.estimated_duration or 60`: None and 0 both give the default.       *)
Weight(job) ==
    IF job.estimated_duration.none \/ job.estimated_duration.value = 0
    THEN DefaultDuration
    ELSE job.estimated_duration.value

-----------------------------------------------------------------------------
(* networkx.DiGraph: nodes in insertion order, and for each node its      *)
(* successors and predecessors in insertion order of the edges.            *)

(* Graph of a map from job name to normalised needs list: every job is a   *)
(* node; for each job in order and each dependency in order, an edge       *)
(* dependency -> job when the dependency is a job.                         *)
DiGraphOf(names, needsOf) ==
    LET nodeSet == Range(names) IN
    [nodes |-> names,
     pred  |-> [n \in nodeSet |-> Dedup(SelectIn(needsOf[n], nodeSet))],
     succ  |-> [d \in nodeSet |->
                  SelectIn(names, {n \in nodeSet : d \in Range(needsOf[n])})]]

(* DAGAnalyzer._build_dependency_graph *)
BuildDependencyGraph(jobs) ==
    DiGraphOf([i \in 1..Len(jobs) |-> jobs[i].name],
              [n \in {jobs[i].name : i \in 1..Len(jobs)} |->
                  (jobs[CHOOSE i \in 1..Len(jobs) : jobs[i].name = n]).needs])

NodeSet(g) == Range(g.nodes)

HasEdge(g, u, v) == u \in NodeSet(g) /\ v \in NodeSet(g) /\ v \in Range(g.succ[u])

Edges(g) == {e \in NodeSet(g) \X NodeSet(g) : e[2] \in Range(g.succ[e[1]])}

OutDegree(g, n) == Len(g.succ[n])

InDegree(g, n) == Len(g.pred[n])

(* Nodes reachable from the set S along edges in direction dir ("succ" or  *)
(* "pred"), S included.                                                    *)
RECURSIVE Closure(_, _, _)
Closure(g, dir, S) ==
    LET next == S \cup UNION {Range(g[dir][n]) : n \in S} IN
    IF next = S THEN S ELSE Closure(g, dir, next)

(* nx.ancestors(G, n): every node with a path to n, n itself excluded.     *)
Ancestors(g, n) == Closure(g, "pred", Range(g.pred[n])) \ {n}

(* nx.descendants(G, n) *)
Descendants(g, n) == Closure(g, "succ", Range(g.succ[n])) \ {n}

(* v is reachable from u by a path of at least one edge.                   *)
Reaches(g, u, v) == v \in Closure(g, "succ", Range(g.succ[u]))

(* nx.is_directed_acyclic_graph *)
IsDirectedAcyclicGraph(g) == \A n \in NodeSet(g) : ~ Reaches(g, n, n)

(* nx.topological_generations: Kahn's algorithm.  indeg holds the nodes    *)
(* whose in-degree is still positive; processing a generation decrements   *)
(* the children in order and collects those that reach zero.  When nodes   *)
(* are left over at the end the library raises NetworkXUnfeasible.         *)
RECURSIVE RelaxChildren(_, _, _)
RelaxChildren(children, indeg, zero) ==
    IF children = <<>> THEN [indeg |-> indeg, zero |-> zero]
    ELSE LET c == Head(children)
             d == indeg[c] - 1
         IN RelaxChildren(Tail(children), [indeg EXCEPT ![c] = d],
                          IF d = 0 THEN Append(zero, c) ELSE zero)

RECURSIVE Generations(_, _, _, _)
Generations(g, indeg, zero, acc) ==
    IF zero = <<>>
    THEN [raised |-> IF \E n \in DOMAIN indeg : indeg[n] > 0
                     THEN "NetworkXUnfeasible" ELSE "none",
          value |-> acc]
    ELSE LET r == RelaxChildren(Flatten([i \in 1..Len(zero) |-> g.succ[zero[i]]]),
                                indeg, <<>>)
         IN Generations(g, r.indeg, r.zero, Append(acc, zero))

(* A variant that yields the jobs one per generation, in the same order.   *)
TopologicalGenerationsSingletons(g) ==
    LET gens == Generations(g, [n \in NodeSet(g) |-> InDegree(g, n)],
                    SelectIn(g.nodes, {n \in NodeSet(g) : InDegree(g, n) = 0}), <<>>)
        flat == Flatten(gens.value)
    IN [raised |-> gens.raised, value |-> [i \in 1..Len(flat) |-> <<flat[i]>>]]

TopologicalGenerations(g) ==
    Generations(g, [n \in NodeSet(g) |-> InDegree(g, n)],
                SelectIn(g.nodes, {n \in NodeSet(g) : InDegree(g, n) = 0}), <<>>)

(* nx.topological_sort: the generations, one after the other.              *)
TopologicalSort(g) ==
    LET gens == TopologicalGenerations(g) IN
    [raised |-> gens.raised, value |-> Flatten(gens.value)]

(* A variant that takes the topological order as one stage.                *)
CalculateExecutionStagesOneStage(g) ==
    IF Len(g.nodes) = 0 THEN [raised |-> "none", value |-> <<>>]
    ELSE LET topo == TopologicalSort(g) IN
         IF topo.raised # "none" THEN [raised |-> topo.raised, value |-> <<>>]
         ELSE [raised |-> "none", value |-> <<topo.value>>]

(* DAGAnalyzer._calculate_execution_stages.  `except nx.NetworkXError`     *)
(* does not catch NetworkXUnfeasible (a NetworkXAlgorithmError), so on a   *)
(* cycle the exception leaves the method.                                  *)
CalculateExecutionStages(g) ==
    IF Len(g.nodes) = 0 THEN [raised |-> "none", value |-> <<>>]
    ELSE LET gens == TopologicalGenerations(g) IN
         IF gens.raised = "NetworkXError" THEN [raised |-> "none", value |-> <<>>]
         ELSE IF gens.raised # "none" THEN [raised |-> gens.raised, value |-> <<>>]
         ELSE gens

JobByName(jobs, n) == jobs[CHOOSE i \in 1..Len(jobs) : jobs[i].name = n]

(* A variant that records the predecessor but not the new distance.       *)
RECURSIVE RelaxSuccessorsNoDistance(_, _, _, _)
RelaxSuccessorsNoDistance(node, succs, w, st) ==
    IF succs = <<>> THEN st
    ELSE LET s == Head(succs) IN
         RelaxSuccessorsNoDistance(node, Tail(succs), w,
            IF st.distances[node] + w > st.distances[s]
            THEN [distances   |-> st.distances,
                  predecessors |-> [st.predecessors EXCEPT ![s] = <<node>>]]
            ELSE st)

(* Lines 321-326 of _find_critical_path: relax the successors of one node. *)
RECURSIVE RelaxSuccessors(_, _, _, _)
RelaxSuccessors(node, succs, w, st) ==
    IF succs = <<>> THEN st
    ELSE LET s == Head(succs) IN
         RelaxSuccessors(node, Tail(succs), w,
            IF st.distances[node] + w > st.distances[s]
            THEN [distances   |-> [st.distances EXCEPT ![s] = st.distances[node] + w],
                  predecessors |-> [st.predecessors EXCEPT ![s] = <<node>>]]
            ELSE st)

RECURSIVE LongestDistances(_, _, _, _)
LongestDistances(g, jobs, order, st) ==
    IF order = <<>> THEN st
    ELSE LongestDistances(g, jobs, Tail(order),
            RelaxSuccessors(Head(order), g.succ[Head(order)],
                            Weight(JobByName(jobs, Head(order))), st))

(* max(distances.items(), key=...): the first node, in node order, whose   *)
(* distance is the largest.                                                *)
FirstMax(nodes, distances) ==
    LET best == SetMax({distances[n] : n \in Range(nodes)})
        i == CHOOSE k \in 1..Len(nodes) :
                /\ distances[nodes[k]] = best
                /\ \A m \in 1..(k - 1) : distances[nodes[m]] # best
    IN nodes[i]

(* Lines 331-338: walk the predecessor pointers back from the end node.    *)
(* A pointer is <<node>>, or <<>> for None.                                *)
RECURSIVE WalkBack(_, _, _)
WalkBack(predecessors, current, path) ==
    IF predecessors[current] = <<>> THEN <<current>> \o path
    ELSE WalkBack(predecessors, predecessors[current][1], <<current>> \o path)

(* DAGAnalyzer._find_critical_path.  As for the stages, NetworkXUnfeasible *)
(* from nx.topological_sort is not caught by `except nx.NetworkXError`.    *)
FindCriticalPath(g, jobs) ==
    IF Len(g.nodes) = 0 THEN [raised |-> "none", value |-> <<>>]
    ELSE LET topo == TopologicalSort(g) IN
         IF topo.raised = "NetworkXError" THEN [raised |-> "none", value |-> <<>>]
         ELSE IF topo.raised # "none" THEN [raised |-> topo.raised, value |-> <<>>]
         ELSE LET st == LongestDistances(g, jobs, topo.value,
                           [distances    |-> [n \in NodeSet(g) |-> 0],
                            predecessors |-> [n \in NodeSet(g) |-> <<>>]])
                  end_node == FirstMax(g.nodes, st.distances)
              IN [raised |-> "none",
                  value |-> WalkBack(st.predecessors, end_node, <<>>)]

(* DAGAnalyzer._calculate_serial_time *)
CalculateSerialTime(jobs) == SumSeq([i \in 1..Len(jobs) |-> Weight(jobs[i])])

(* A variant that adds up the weights of a stage.                          *)
CalculateParallelTimeSum(jobs, stages) ==
    SumSeq([k \in 1..Len(stages) |->
              SumSeq([i \in 1..Len(stages[k]) |-> Weight(JobByName(jobs, stages[k][i]))])])

(* DAGAnalyzer._calculate_parallel_time: per stage the largest weight.     *)
CalculateParallelTime(jobs, stages) ==
    SumSeq([k \in 1..Len(stages) |->
              SetMax({Weight(JobByName(jobs, stages[k][i])) : i \in 1..Len(stages[k])})])

(* A variant without the `job_name not in bottlenecks` test.               *)
IdentifyBottlenecksNoTest(g, stages) ==
    LET many == SelectIn(g.nodes, {n \in NodeSet(g) : OutDegree(g, n) >= 3})
        alone == [k \in 1..Len(stages) |->
                    IF Len(stages[k]) = 1 /\ OutDegree(g, stages[k][1]) > 0
                    THEN <<stages[k][1]>> ELSE <<>>]
    IN many \o Flatten(alone)

(* DAGAnalyzer._identify_bottlenecks *)
IdentifyBottlenecks(g, stages) ==
    LET many == SelectIn(g.nodes, {n \in NodeSet(g) : OutDegree(g, n) >= 3})
        alone == [k \in 1..Len(stages) |->
                    IF /\ Len(stages[k]) = 1
                       /\ OutDegree(g, stages[k][1]) > 0
                       /\ stages[k][1] \notin Range(many)
                    THEN <<stages[k][1]>> ELSE <<>>]
    IN many \o Flatten(alone)

(* nx.simple_cycles: every elementary cycle once.  The library fixes       *)
(* neither the order of the cycles nor the node a cycle starts at, so a    *)
(* cycle is kept rotated to start at its earliest declared node and the    *)
(* result is a set.                                                        *)
(* A variant that overlooks the cycle of a single job.                     *)
SimpleCyclesNoSelfLoops(g) ==
    LET N == NodeSet(g)
        paths == UNION {[1..m -> N] : m \in 2..Cardinality(N)}
    IN {p \in paths :
          /\ \A i, j \in 1..Len(p) : i # j => p[i] # p[j]
          /\ \A i \in 1..Len(p) :
                HasEdge(g, p[i], p[IF i = Len(p) THEN 1 ELSE i + 1])
          /\ \A i \in 2..Len(p) : IndexIn(g.nodes, p[1]) < IndexIn(g.nodes, p[i])}

SimpleCycles(g) ==
    LET N == NodeSet(g)
        paths == UNION {[1..m -> N] : m \in 1..Cardinality(N)}
    IN {p \in paths :
          /\ \A i, j \in 1..Len(p) : i # j => p[i] # p[j]
          /\ \A i \in 1..Len(p) :
                HasEdge(g, p[i], p[IF i = Len(p) THEN 1 ELSE i + 1])
          /\ \A i \in 2..Len(p) : IndexIn(g.nodes, p[1]) < IndexIn(g.nodes, p[i])}

(* Lines 232-243 of _check_dependency_issues: one issue per entry of a     *)
(* needs list that is not a job, in declaration order.                     *)
MissingDependencyIssues(jobs) ==
    LET known == {jobs[i].name : i \in 1..Len(jobs)} IN
    Flatten([i \in 1..Len(jobs) |->
               LET missing == SelectNotIn(jobs[i].needs, known) IN
               [k \in 1..Len(missing) |-> [job |-> jobs[i].name, missing |-> missing[k]]]])

(* Lines 245-265: for each direct dependency `dep` of a job whose          *)
(* ancestors meet the job's direct dependencies, an issue naming `dep` as  *)
(* the dependency and the ancestors met as `redundant_with`.  The loop     *)
(* runs over a Python set, so the issues of one job come in no fixed order.*)
RedundantDependencyIssues(g) ==
    {[job |-> n, dependency |-> dep,
      redundant_with |-> Ancestors(g, dep) \cap Range(g.pred[n])] :
        <<n, dep>> \in {e \in NodeSet(g) \X NodeSet(g) :
                          /\ e[2] \in Range(g.pred[e[1]])
                          /\ Ancestors(g, e[2]) \cap Range(g.pred[e[1]]) # {}}}

(* DAGAnalyzer._check_dependency_issues: the three kinds of issue, which   *)
(* the code appends to one list in this order.                             *)
CheckDependencyIssues(g, jobs) ==
    [circular  |-> IF IsDirectedAcyclicGraph(g) THEN {} ELSE SimpleCycles(g),
     missing   |-> MissingDependencyIssues(jobs),
     redundant |-> RedundantDependencyIssues(g)]

(* nx.all_simple_paths(graph, source=None, target=None): None is not a     *)
(* node of any graph, and the library raises NodeNotFound for a source     *)
(* that is not in the graph.                                               *)
AllSimplePathsFromNone(g) == [raised |-> "NodeNotFound", value |-> {}]

(* DAGAnalyzer._generate_optimization_suggestions.  A pair of one stage is *)
(* suggested only under `len(stage) == 1`, which no stage holding a pair   *)
(* satisfies; the long-chain loop starts with the all_simple_paths call.   *)
GenerateOptimizationSuggestions(jobs, g, stages, bottlenecks) ==
    LET lead == SubSeq(stages, 1, Len(stages) - 1)
        pairs == {[type |-> "parallelize_independent_jobs", jobs |-> <<p[1], p[2]>>] :
                    p \in {q \in NodeSet(g) \X NodeSet(g) :
                             \E k \in 1..Len(lead) :
                                /\ q[1] \in Range(lead[k]) /\ q[2] \in Range(lead[k])
                                /\ Rank(q[1]) < Rank(q[2])
                                /\ Descendants(g, q[1]) \cap Descendants(g, q[2]) = {}
                                /\ Len(lead[k]) = 1}}
        split == {[type |-> "split_bottleneck_job", job |-> b] :
                    b \in {x \in Range(bottlenecks) : Len(JobByName(jobs, x).steps) > 5}}
        chains == AllSimplePathsFromNone(g)
    IN [raised |-> chains.raised, value |-> pairs \cup split]

EmptyGraph == [nodes |-> <<>>, pred |-> <<>>, succ |-> <<>>]

NoIssues == [circular |-> {}, missing |-> <<>>, redundant |-> {}]

(* The frame of analyze_workflow before it is called: nothing assigned.    *)
NoAnalysis ==
    [status |-> "none", raised |-> "none", assigned |-> {},
     jobs |-> <<>>, graph |-> EmptyGraph, dependency_issues |-> NoIssues,
     execution_stages |-> <<>>, critical_path |-> <<>>, bottlenecks |-> <<>>,
     suggestions |-> {}, total_serial_time |-> 0, optimal_parallel_time |-> 0]

(* DAGAnalyzer.analyze_workflow, as the frame it leaves: the locals it     *)
(* assigned (`assigned`) and whether it returned or which exception        *)
(* ended it.  A local that was not assigned keeps its NoAnalysis value.    *)
AnalyzeWorkflowFrame(wf, pf) ==
    LET jobs == ExtractJobs(wf, pf)
        graph == BuildDependencyGraph(jobs)
        issues == CheckDependencyIssues(graph, jobs)
        stages == CalculateExecutionStages(graph)
        path == FindCriticalPath(graph, jobs)
        bn == IdentifyBottlenecks(graph, stages.value)
        sugg == GenerateOptimizationSuggestions(jobs, graph, stages.value, bn)
        f0 == [NoAnalysis EXCEPT !.jobs = jobs, !.graph = graph,
                                 !.dependency_issues = issues,
                                 !.assigned = {"jobs", "graph", "dependency_issues"}]
        f1 == [f0 EXCEPT !.execution_stages = stages.value,
                         !.assigned = @ \cup {"execution_stages"}]
        f2 == [f1 EXCEPT !.critical_path = path.value,
                         !.bottlenecks = bn,
                         !.assigned = @ \cup {"critical_path", "bottlenecks"}]
    IN IF stages.raised # "none"
       THEN [f0 EXCEPT !.status = "raised", !.raised = stages.raised]
       ELSE IF path.raised # "none"
       THEN [f1 EXCEPT !.status = "raised", !.raised = path.raised]
       ELSE IF sugg.raised # "none"
       THEN [f2 EXCEPT !.status = "raised", !.raised = sugg.raised]
       ELSE [f2 EXCEPT !.status = "returned",
                       !.suggestions = sugg.value,
                       !.total_serial_time = CalculateSerialTime(jobs),
                       !.optimal_parallel_time =
                            CalculateParallelTime(jobs, stages.value),
                       !.assigned = @ \cup {"suggestions", "total_serial_time",
                                            "optimal_parallel_time"}]

-----------------------------------------------------------------------------
(* JobParallelizer *)

(* sorted(list of names) *)
RECURSIVE InsertSorted(_, _)
InsertSorted(x, s) ==
    IF s = <<>> THEN <<x>>
    ELSE IF Rank(x) <= Rank(Head(s)) THEN <<x>> \o s
         ELSE <<Head(s)>> \o InsertSorted(x, Tail(s))

RECURSIVE Sorted(_)
Sorted(s) == IF s = <<>> THEN <<>> ELSE InsertSorted(Head(s), Sorted(Tail(s)))

(* JobParallelizer._get_needs_list: string | list; a mapping gives [].     *)
GetNeedsList(needs) ==
    CASE needs.form = "str"  -> <<needs.items[1].name>>
      [] needs.form = "list" -> ParseListItems(needs.items)
      [] OTHER               -> <<>>

(* JobParallelizer._get_gitlab_needs_list: string | list | mapping.        *)
GetGitlabNeedsList(needs) ==
    CASE needs.form = "str"  -> <<needs.items[1].name>>
      [] needs.form = "list" -> ParseListItems(needs.items)
      [] needs.form = "dict" -> [i \in 1..Len(needs.items) |-> needs.items[i].name]
      [] OTHER               -> <<>>

(* The needs list the graph builders read for a job (lines 165-166 and     *)
(* 383-384).  GitHub: `if isinstance(job_data, dict)`, then                *)
(* _get_needs_list(job_data.get('needs', [])); GitLab:                     *)
(* `if isinstance(job_data, dict) and 'needs' in job_data`.  A job record  *)
(* that is not a mapping is given no edges.                                *)
NeedsListOn(pf, job) ==
    IF job.shape # "dict" THEN <<>>
    ELSE IF pf = "github_actions" THEN GetNeedsList(NeedsOrDefault(job))
    ELSE IF job.needs.form = "absent" THEN <<>>
    ELSE GetGitlabNeedsList(job.needs)

(* current_needs, as the rewriting loops read it from a job of             *)
(* optimized_workflow, with no isinstance test before it.  GitHub (lines   *)
(* 84 and 119): job.get('needs', []) raises AttributeError on anything but *)
(* a mapping.  GitLab (lines 337-339): `'needs' in job` is false for a     *)
(* string or a list that does not hold it, and the job is passed over;     *)
(* on any other value the test or job['needs'] raises TypeError.           *)
CurrentNeeds(pf, job) ==
    IF job.shape = "dict" THEN [raised |-> "none", value |-> NeedsListOn(pf, job)]
    ELSE IF pf = "github_actions" THEN [raised |-> "AttributeError", value |-> <<>>]
    ELSE IF job.shape = "sequence" THEN [raised |-> "none", value |-> <<>>]
    ELSE [raised |-> "TypeError", value |-> <<>>]

(* The `jobs` the optimizer works on: workflow_data['jobs'] on GitHub, the *)
(* top-level keys other than the special keys whose value is a mapping on  *)
(* GitLab (lines 323-325).                                                 *)
JobsOn(pf, wf) == IF pf = "github_actions" THEN wf ELSE GitlabJobs(wf)

(* JobParallelizer._build_dependency_graph (GitHub) and                    *)
(* _build_gitlab_dependency_graph (GitLab).                                *)
BuildGraphOn(pf, wf) ==
    LET jobs == JobsOn(pf, wf) IN
    DiGraphOf(JobNames(jobs), [n \in JobSet(jobs) |-> NeedsListOn(pf, JobOf(jobs, n))])

(* The set `redundant_deps` that _find_redundant_dependencies computes for *)
(* one node: the direct dependencies that are an ancestor of another       *)
(* direct dependency.                                                      *)
RedundantDepsOf(g, node) ==
    LET direct_deps == Range(g.pred[node]) IN
    IF Cardinality(direct_deps) > 1
    THEN {other_dep \in direct_deps :
            \E dep \in direct_deps :
                other_dep # dep /\ other_dep \in Ancestors(g, dep)}
    ELSE {}

(* A variant that looks only at the jobs with more than two direct         *)
(* dependencies.                                                           *)
FindRedundantDependenciesThreeOrMore(g) ==
    LET found(n) == IF Cardinality(Range(g.pred[n])) > 2
                    THEN RedundantDepsOf(g, n) ELSE {}
    IN [keys |-> SelectIn(g.nodes, {n \in NodeSet(g) : found(n) # {}}),
        deps |-> [n \in NodeSet(g) |-> found(n)]]

(* JobParallelizer._find_redundant_dependencies: the dict, as the nodes    *)
(* that got an entry (in node order) and the set of each.                  *)
FindRedundantDependencies(g) ==
    [keys |-> SelectIn(g.nodes, {n \in NodeSet(g) : RedundantDepsOf(g, n) # {}}),
     deps |-> [n \in NodeSet(g) |-> RedundantDepsOf(g, n)]]

(* Lines 266-279 of _find_parallelizable_jobs, for one generation.         *)
IndependentJobs(g, generation) ==
    SelectIn(generation,
             {job \in Range(generation) :
                ~ \E other_job \in Range(generation) :
                     job # other_job /\ HasEdge(g, other_job, job)})

(* Lines 286-292: jobs grouped by the sorted tuple of their needs, the     *)
(* groups in order of their first job.                                     *)
JobsByDeps(wf) ==
    LET w == DictJobs(wf)
        key(i) == Sorted(GetNeedsList(NeedsOrDefault(w[i])))
        keys == Dedup([i \in 1..Len(w) |-> key(i)])
    IN [k \in 1..Len(keys) |->
          SelectIn(JobNames(w), {w[i].name : i \in {j \in 1..Len(w) : key(j) = keys[k]}})]

(* Lines 294-299: append the groups of more than one job not yet listed.   *)
RECURSIVE AppendGroups(_, _)
AppendGroups(parallelizable, groups) ==
    IF groups = <<>> THEN parallelizable
    ELSE AppendGroups(
            IF Len(Head(groups)) > 1 /\ Head(groups) \notin Range(parallelizable)
            THEN Append(parallelizable, Head(groups)) ELSE parallelizable,
            Tail(groups))

(* A variant whose `except` clause also catches NetworkXUnfeasible, so     *)
(* that the identical-dependency pass runs on a cyclic graph.              *)
FindParallelizableJobsCatching(wf, g) ==
    LET gens == TopologicalGenerations(g)
        indep == [k \in 1..Len(gens.value) |->
                    IF Len(gens.value[k]) > 1
                    THEN IndependentJobs(g, gens.value[k]) ELSE <<>>]
        same_level == SelectSeq(indep, LAMBDA js : Len(js) > 1)
    IN [raised |-> "none",
        value |-> AppendGroups(IF gens.raised = "none" THEN same_level ELSE <<>>,
                               JobsByDeps(wf))]

(* JobParallelizer._find_parallelizable_jobs.  NetworkXUnfeasible from     *)
(* nx.topological_generations is not a NetworkXError and leaves the method.*)
FindParallelizableJobs(wf, g) ==
    LET gens == TopologicalGenerations(g)
        indep == [k \in 1..Len(gens.value) |->
                    IF Len(gens.value[k]) > 1
                    THEN IndependentJobs(g, gens.value[k]) ELSE <<>>]
        same_level == SelectSeq(indep, LAMBDA js : Len(js) > 1)
    IN IF gens.raised \notin {"none", "NetworkXError"}
       THEN [raised |-> gens.raised, value |-> <<>>]
       ELSE [raised |-> "none",
             value |-> AppendGroups(IF gens.raised = "none" THEN same_level ELSE <<>>,
                                    JobsByDeps(wf))]

StrItems(names) == [i \in 1..Len(names) |-> [kind |-> "str", name |-> names[i]]]

Absent == [form |-> "absent", items |-> <<>>]

(* Lines 90-94 and 125-128: a list of several names, a single name as a    *)
(* string, or no `needs` key at all.                                       *)
GithubNeedsValue(new_needs) ==
    IF new_needs = <<>> THEN Absent
    ELSE IF Len(new_needs) > 1 THEN [form |-> "list", items |-> StrItems(new_needs)]
    ELSE [form |-> "str", items |-> StrItems(new_needs)]

(* Lines 343-346: a list of names, or no `needs` key.                      *)
GitlabNeedsValue(new_needs) ==
    IF new_needs = <<>> THEN Absent
    ELSE [form |-> "list", items |-> StrItems(new_needs)]

NeedsValueOn(pf, new_needs) ==
    IF pf = "github_actions" THEN GithubNeedsValue(new_needs)
    ELSE GitlabNeedsValue(new_needs)

(* job['needs'] = value (value absent: job.pop('needs', None)) on the job  *)
(* object bound to the name n.  Two names of a job map may be bound to one *)
(* object (a YAML alias, `d: *c`): they have the same `node`, and what is  *)
(* written through one name is seen through the other.                     *)
SetNeeds(wf, n, value) ==
    [i \in 1..Len(wf) |->
        IF wf[i].node = JobOf(wf, n).node THEN [wf[i] EXCEPT !.needs = value] ELSE wf[i]]

(* A variant in which the optimizer works on the caller's job map itself   *)
(* (optimized_workflow = workflow_data) instead of a parse of its own.     *)
LoadOptimizedWorkflowAliased(content, workflow_data) ==
    [optimized_workflow |-> workflow_data, workflow_data |-> workflow_data,
     aliased |-> TRUE, changes |-> <<>>, raised |-> "none"]

(* optimized_workflow = yaml.safe_load(content) and changes = []: the two  *)
(* job maps the optimizer holds.  workflow_data is the caller's object;    *)
(* optimized_workflow is a new object parsed from the content, so the two  *)
(* are not the same object (aliased is FALSE).                             *)
LoadOptimizedWorkflow(content, workflow_data) ==
    [optimized_workflow |-> content, workflow_data |-> workflow_data,
     aliased |-> FALSE, changes |-> <<>>, raised |-> "none"]

(* job['needs'] = ... and job.pop('needs', None), where job is             *)
(* optimized_workflow['jobs'][job_name] (optimized_workflow[job_name] on   *)
(* GitLab): the write goes to the object optimized_workflow refers to, and *)
(* is seen through workflow_data only when both name the same object.      *)
WriteNeeds(st, job_name, value) ==
    [st EXCEPT !.optimized_workflow = SetNeeds(@, job_name, value),
               !.workflow_data = IF st.aliased THEN SetNeeds(@, job_name, value) ELSE @]

(* A variant that drops, for each job, only the first redundant name of    *)
(* its needs list, leaving the others to a later run.                      *)
RECURSIVE RemoveRedundantFirstOnly(_, _, _, _)
RemoveRedundantFirstOnly(pf, keys, deps, st) ==
    IF keys = <<>> \/ st.raised # "none" THEN st
    ELSE IF Head(keys) \notin JobSet(st.optimized_workflow)
    THEN RemoveRedundantFirstOnly(pf, Tail(keys), deps, st)
    ELSE LET job_name == Head(keys)
             current_needs == CurrentNeeds(pf, JobOf(st.optimized_workflow, job_name))
             hits == SelectIn(current_needs.value, deps[job_name])
             deps_to_remove == IF hits = <<>> THEN {} ELSE {Head(hits)}
             new_needs == SelectNotIn(current_needs.value, deps_to_remove)
         IN RemoveRedundantFirstOnly(pf, Tail(keys), deps,
               IF current_needs.raised # "none"
               THEN [st EXCEPT !.raised = current_needs.raised]
               ELSE IF Len(new_needs) # Len(current_needs.value)
               THEN [WriteNeeds(st, job_name, NeedsValueOn(pf, new_needs))
                        EXCEPT !.changes = Append(@,
                                  [type |-> "remove_redundant_dependency",
                                   job |-> job_name, removed |-> deps_to_remove])]
               ELSE st)

(* Lines 81-101 (GitHub) and 335-353 (GitLab): for each job with redundant *)
(* dependencies that optimized_workflow holds (`if job_name in ...`), drop *)
(* them from its needs list and log the change.  st is the state of the    *)
(* call: the two job maps, the change-log and the exception raised, if     *)
(* any, which ends the loop.                                               *)
RECURSIVE RemoveRedundant(_, _, _, _)
RemoveRedundant(pf, keys, deps, st) ==
    IF keys = <<>> \/ st.raised # "none" THEN st
    ELSE IF Head(keys) \notin JobSet(st.optimized_workflow)
    THEN RemoveRedundant(pf, Tail(keys), deps, st)
    ELSE LET job_name == Head(keys)
             deps_to_remove == deps[job_name]
             current_needs == CurrentNeeds(pf, JobOf(st.optimized_workflow, job_name))
             new_needs == SelectNotIn(current_needs.value, deps_to_remove)
         IN RemoveRedundant(pf, Tail(keys), deps,
               IF current_needs.raised # "none"
               THEN [st EXCEPT !.raised = current_needs.raised]
               ELSE IF Len(new_needs) # Len(current_needs.value)
               THEN [WriteNeeds(st, job_name, NeedsValueOn(pf, new_needs))
                        EXCEPT !.changes = Append(@,
                                  [type |-> "remove_redundant_dependency",
                                   job |-> job_name, removed |-> deps_to_remove])]
               ELSE st)

(* Lines 107-112: does the group hold two jobs joined by an edge?          *)
Sequential(g, job_set) ==
    \E i, j \in 1..Len(job_set) :
        /\ i < j
        /\ (HasEdge(g, job_set[i], job_set[j]) \/ HasEdge(g, job_set[j], job_set[i]))

(* Lines 116-134: in a sequential group, drop from each job that           *)
(* optimized_workflow holds (`if job in optimized_workflow['jobs']`) the   *)
(* dependencies on the other jobs of the group.                            *)
RECURSIVE Unserialize(_, _, _)
Unserialize(job_set, rest, st) ==
    IF rest = <<>> \/ st.raised # "none" THEN st
    ELSE IF Head(rest) \notin JobSet(st.optimized_workflow)
    THEN Unserialize(job_set, Tail(rest), st)
    ELSE LET job == Head(rest)
             needs == CurrentNeeds("github_actions", JobOf(st.optimized_workflow, job))
             new_needs == SelectNotIn(needs.value, Range(job_set) \ {job})
         IN Unserialize(job_set, Tail(rest),
               IF needs.raised # "none"
               THEN [st EXCEPT !.raised = needs.raised]
               ELSE IF Len(new_needs) # Len(needs.value)
               THEN [WriteNeeds(st, job, GithubNeedsValue(new_needs))
                        EXCEPT !.changes = Append(@,
                                  [type |-> "enable_parallelization",
                                   job |-> job, removed |-> {}])]
               ELSE st)

(* Lines 104-134 *)
RECURSIVE MakeParallel(_, _, _)
MakeParallel(g, job_sets, st) ==
    IF job_sets = <<>> \/ st.raised # "none" THEN st
    ELSE MakeParallel(g, Tail(job_sets),
            IF Len(Head(job_sets)) > 1 /\ Sequential(g, Head(job_sets))
            THEN Unserialize(Head(job_sets), Head(job_sets), st)
            ELSE st)

(* A variant that, when a step fails, gives back what had been rewritten   *)
(* until then.                                                             *)
OptimizeGithubActionsPartial(content, workflow_data) ==
    LET graph == BuildGraphOn("github_actions", workflow_data)
        redundant_deps == FindRedundantDependencies(graph)
        parallelizable_jobs == FindParallelizableJobs(workflow_data, graph)
        st1 == RemoveRedundant("github_actions", redundant_deps.keys, redundant_deps.deps,
                               LoadOptimizedWorkflow(content, workflow_data))
        st2 == MakeParallel(graph, parallelizable_jobs.value, st1)
    IN [content |-> st2.optimized_workflow, changes |-> st2.changes,
        caught |-> IF parallelizable_jobs.raised # "none"
                   THEN parallelizable_jobs.raised ELSE st2.raised,
        parallelizable_jobs |-> parallelizable_jobs.value,
        workflow_data |-> st2.workflow_data]

(* JobParallelizer._optimize_github_actions.  The content is represented   *)
(* by the job map it parses to.  Any exception inside the try block gives  *)
(* back the content it was called with and no changes, whatever had been   *)
(* rewritten on optimized_workflow by then; parallelizable_jobs is the     *)
(* local of that name, empty when it was never assigned, and workflow_data *)
(* is the caller's job map as the call leaves it.  The graph and the       *)
(* groups are computed from workflow_data (lines 70-75, an exception there *)
(* comes before anything is written), the rewriting is done on             *)
(* optimized_workflow.                                                     *)
OptimizeGithubActions(content, workflow_data) ==
    LET graph == BuildGraphOn("github_actions", workflow_data)
        redundant_deps == FindRedundantDependencies(graph)
        parallelizable_jobs == FindParallelizableJobs(workflow_data, graph)
        st1 == RemoveRedundant("github_actions", redundant_deps.keys, redundant_deps.deps,
                               LoadOptimizedWorkflow(content, workflow_data))
        st2 == MakeParallel(graph, parallelizable_jobs.value, st1)
    IN IF parallelizable_jobs.raised # "none"
       THEN [content |-> content, changes |-> <<>>,
             caught |-> parallelizable_jobs.raised,
             parallelizable_jobs |-> <<>>, workflow_data |-> workflow_data]
       ELSE IF st2.raised # "none"
       THEN [content |-> content, changes |-> <<>>, caught |-> st2.raised,
             parallelizable_jobs |-> parallelizable_jobs.value,
             workflow_data |-> st2.workflow_data]
       ELSE IF st2.changes # <<>>
       THEN [content |-> st2.optimized_workflow, changes |-> st2.changes,
             caught |-> "none",
             parallelizable_jobs |-> parallelizable_jobs.value,
             workflow_data |-> st2.workflow_data]
       ELSE [content |-> content, changes |-> <<>>, caught |-> "none",
             parallelizable_jobs |-> parallelizable_jobs.value,
             workflow_data |-> st2.workflow_data]

(* JobParallelizer._optimize_gitlab_ci: the graph is built from            *)
(* workflow_data, the rewriting is done on optimized_workflow; an          *)
(* exception gives back the content the call was given and no changes.     *)
OptimizeGitlabCi(content, workflow_data) ==
    LET graph == BuildGraphOn("gitlab_ci", workflow_data)
        redundant_deps == FindRedundantDependencies(graph)
        st1 == RemoveRedundant("gitlab_ci", redundant_deps.keys, redundant_deps.deps,
                               LoadOptimizedWorkflow(content, workflow_data))
    IN IF st1.raised # "none"
       THEN [content |-> content, changes |-> <<>>, caught |-> st1.raised,
             parallelizable_jobs |-> <<>>, workflow_data |-> st1.workflow_data]
       ELSE IF st1.changes # <<>>
       THEN [content |-> st1.optimized_workflow, changes |-> st1.changes,
             caught |-> "none", parallelizable_jobs |-> <<>>,
             workflow_data |-> st1.workflow_data]
       ELSE [content |-> content, changes |-> <<>>, caught |-> "none",
             parallelizable_jobs |-> <<>>, workflow_data |-> st1.workflow_data]

(* JobParallelizer.optimize_parallelization *)
OptimizeParallelization(content, workflow_data, pf) ==
    IF pf = "github_actions" THEN OptimizeGithubActions(content, workflow_data)
    ELSE IF pf = "gitlab_ci" THEN OptimizeGitlabCi(content, workflow_data)
    ELSE [content |-> content, changes |-> <<>>, caught |-> "none",
          parallelizable_jobs |-> <<>>, workflow_data |-> workflow_data]

-----------------------------------------------------------------------------
(* The job maps the engine is run on *)

Pool(n) == {Names[i] : i \in 1..n} \cup {Dangling}

(* Needs lists of at most k entries over the names of n jobs and the       *)
(* dangling name, a name possibly repeated, written in alphabetical order. *)
NeedsLists(n, k) ==
    {l \in UNION {[1..m -> Pool(n)] : m \in 0..k} :
        \A i \in 1..(Len(l) - 1) : Rank(l[i]) <= Rank(l[i + 1])}

(* For the first j of n jobs a needs list each, with at most k entries in  *)
(* all.                                                                    *)
RECURSIVE NeedsTables(_, _, _)
NeedsTables(n, j, k) ==
    IF j = 0 THEN {<<>>}
    ELSE UNION {{Append(t, l) : t \in NeedsTables(n, j - 1, k - Len(l))} :
                  l \in NeedsLists(n, k)}

(* The step lists a job is given: none (estimate 0, so the default weight) *)
(* and one build action (estimate 150).                                    *)
StepChoices == {<<>>, <<Step("dict", {"uses"}, {"build"}, {}, {})>>}

(* The job map of n jobs with needs table t and step lists st.             *)
WorkflowOf(n, t, st) ==
    [i \in 1..n |-> [name |-> Names[i], node |-> Names[i], shape |-> "dict",
                     needs |-> [form |-> "list", items |-> StrItems(t[i])],
                     steps |-> st[i]]]

Platforms == {"github_actions", "gitlab_ci"}

NoSchedule ==
    [called |-> FALSE, stages |-> [raised |-> "none", value |-> <<>>],
     critical_path |-> [raised |-> "none", value |-> <<>>],
     total_serial_time |-> 0, optimal_parallel_time |-> 0]

NoOptimization ==
    [called |-> FALSE, content |-> <<>>, changes |-> <<>>, caught |-> "none",
     parallelizable_jobs |-> <<>>, workflow_data |-> <<>>]

NothingCalled ==
    /\ analysis = NoAnalysis
    /\ schedule = NoSchedule
    /\ optimization = NoOptimization
    /\ rerun = NoOptimization

(* Job maps of up to MaxJobs jobs and MaxDeps declared dependencies, every *)
(* job without steps, on either platform.                                  *)
Init ==
    /\ \E n \in 0..MaxJobs :
         \E t \in NeedsTables(n, n, MaxDeps) :
            workflow = WorkflowOf(n, t, [i \in 1..n |-> <<>>])
    /\ platform \in Platforms
    /\ file_content = workflow
    /\ NothingCalled

(* Job maps of up to MaxInterleavedJobs jobs and MaxInterleavedDeps        *)
(* declared dependencies, for an analysis and an optimization of the same  *)
(* job map.                                                                *)
InitInterleaved ==
    /\ \E n \in 0..MaxInterleavedJobs :
         \E t \in NeedsTables(n, n, MaxInterleavedDeps) :
            workflow = WorkflowOf(n, t, [i \in 1..n |-> <<>>])
    /\ platform \in Platforms
    /\ file_content = workflow
    /\ NothingCalled

(* Job maps of up to MaxTimedJobs jobs and MaxTimedDeps declared           *)
(* dependencies whose jobs differ in their steps, hence in their weights   *)
(* (a GitLab job has no steps).                                            *)
InitSchedule ==
    /\ platform \in Platforms
    /\ \E n \in 0..MaxTimedJobs :
         \E t \in NeedsTables(n, n, MaxTimedDeps) :
            \E st \in [1..n -> IF platform = "github_actions" THEN StepChoices ELSE {<<>>}] :
               workflow = WorkflowOf(n, t, st)
    /\ file_content = workflow
    /\ NothingCalled

(* The sets of at most k elements of S.                                    *)
RECURSIVE SubsetsUpTo(_, _)
SubsetsUpTo(S, k) ==
    IF k = 0 \/ S = {} THEN {{}}
    ELSE LET x == CHOOSE y \in S : TRUE
             rest == S \ {x}
         IN SubsetsUpTo(rest, k) \cup {T \cup {x} : T \in SubsetsUpTo(rest, k - 1)}

(* The needs table of n jobs that declares the dependencies E, a set of    *)
(* pairs <<dependency, job>> of job indices.                               *)
NeedsTableOf(n, E) ==
    [j \in 1..n |-> SelectIn(Names, {Names[e[1]] : e \in {x \in E : x[2] = j}})]

(* Acyclic job maps of up to MaxWideJobs jobs and MaxWideDeps declared     *)
(* dependencies: the jobs need only jobs declared before them, or only     *)
(* jobs declared after them; no name repeated or dangling, every job       *)
(* without steps, on either platform.                                      *)
InitWide ==
    /\ \E n \in 0..MaxWideJobs :
         \E before \in BOOLEAN :
            \E E \in SubsetsUpTo({e \in (1..n) \X (1..n) :
                                    IF before THEN e[1] < e[2] ELSE e[1] > e[2]},
                                 MaxWideDeps) :
               workflow = WorkflowOf(n, NeedsTableOf(n, E), [i \in 1..n |-> <<>>])
    /\ platform \in Platforms
    /\ file_content = workflow
    /\ NothingCalled

(* What a needs list may hold over the names of n jobs: a name string, an  *)
(* entry with a `job` field, or something that is neither (a number, say). *)
ListItems(n) ==
    {[kind |-> k, name |-> x] : k \in {"str", "job"}, x \in Pool(n)}
        \cup {[kind |-> "other", name |-> ""]}

ItemRank(item) ==
    IF item.kind = "other" THEN 0
    ELSE 2 * Rank(item.name) + (IF item.kind = "job" THEN 1 ELSE 0)

(* The needs declarations of at most k entries: no `needs` key, a value    *)
(* that is none of the three forms, a name string, a list (written in      *)
(* order of ItemRank, an entry possibly repeated) and a mapping keyed by   *)
(* names.                                                                  *)
Declarations(n, k) ==
    {Absent, [form |-> "other", items |-> <<>>]}
      \cup {[form |-> "str", items |-> StrItems(<<x>>)] : x \in {y \in Pool(n) : k >= 1}}
      \cup {[form |-> "list", items |-> l] :
               l \in {q \in UNION {[1..m -> ListItems(n)] : m \in 0..k} :
                        \A i \in 1..(Len(q) - 1) : ItemRank(q[i]) <= ItemRank(q[i + 1])}}
      \cup {[form |-> "dict", items |-> StrItems(l)] :
               l \in {q \in NeedsLists(n, k) :
                        \A i \in 1..(Len(q) - 1) : q[i] # q[i + 1]}}

(* The records job i may have: a mapping with one of the declarations, or  *)
(* a value that is not a mapping (a string, say, or a number).             *)
JobRecords(n, i, k) ==
    {[name |-> Names[i], node |-> Names[i], shape |-> "dict", needs |-> d,
      steps |-> <<>>] : d \in Declarations(n, k)}
      \cup {[name |-> Names[i], node |-> Names[i], shape |-> sh, needs |-> Absent,
              steps |-> <<>>] : sh \in {"sequence", "other"}}

(* For the first j of n jobs a record each, with at most k needs entries   *)
(* in all.                                                                 *)
RECURSIVE JobTables(_, _, _)
JobTables(n, j, k) ==
    IF j = 0 THEN {<<>>}
    ELSE UNION {{Append(t, r) : t \in JobTables(n, j - 1, k - Len(r.needs.items))} :
                  r \in JobRecords(n, j, k)}

(* The entries a job map may end with under the name of a special key of   *)
(* GitLab: none, a mapping, and a mapping with a `needs` key that names    *)
(* the first job.  On GitHub such an entry is a job like any other.        *)
SpecialEntries ==
    {<<>>}
      \cup {<<[name |-> key, node |-> key, shape |-> "dict", needs |-> d, steps |-> <<>>]>> :
               key \in {"variables"},
               d \in {Absent, [form |-> "list", items |-> StrItems(<<Names[1]>>)]}}

(* Job maps of up to MaxFormJobs job records and MaxFormItems needs        *)
(* entries, in every form a declaration and a job record can take, with or *)
(* without an entry under a special key after them.                        *)
InitForms ==
    /\ \E n \in 0..MaxFormJobs :
         \E t \in JobTables(n, n, MaxFormItems) :
            \E special \in SpecialEntries : workflow = t \o special
    /\ platform \in Platforms
    /\ file_content = workflow
    /\ NothingCalled

(* The step descriptors a job is given: an action reference or a command   *)
(* of each keyword class and of two classes at once, a step with both an   *)
(* action reference and a command, steps that mention a deployment or a    *)
(* release, a mapping with neither key, and a step that is not a mapping.  *)
StepDescriptors ==
    {Step("dict", {"uses"}, u, {}, {}) :
        u \in {{}, {"setup-"}, {"cache"}, {"build"}, {"test"}, {"setup-", "build"}}}
      \cup {Step("dict", {"run"}, {}, r, {}) :
               r \in {{}, {"npm install"}, {"yarn install"}, {"build"}, {"test"},
                      {"npm install", "test"}, {"build", "test"}}}
      \cup {Step("dict", {"uses", "run"}, {}, {"npm install"}, {}),
            Step("dict", {"uses"}, {}, {}, {"deploy"}),
            Step("dict", {"run"}, {}, {"test"}, {"release"}),
            Step("dict", {}, {}, {}, {}),
            Step("dict", {}, {}, {}, {"deploy"}),
            Step("other", {}, {}, {}, {}),
            Step("other", {}, {}, {}, {"deploy"})}

(* The step lists of at most k steps.                                      *)
StepLists(k) == UNION {[1..m -> StepDescriptors] : m \in 0..k}

(* The step list l dealt out to j jobs in order: job i gets the steps      *)
(* after cut[i - 1] up to cut[i].                                          *)
StepTable(j, l, cut) == [i \in 1..j |-> SubSeq(l, cut[i - 1] + 1, cut[i])]

(* Job maps of up to MaxStepJobs jobs, each needing the job declared       *)
(* before it, with at most MaxSteps steps in all (a GitLab job has no      *)
(* steps).                                                                 *)
InitSteps ==
    /\ platform \in Platforms
    /\ \E n \in 0..MaxStepJobs :
         \E l \in (IF platform = "github_actions" THEN StepLists(MaxSteps) ELSE {<<>>}) :
            \E cut \in [0..n -> 0..Len(l)] :
               /\ cut[0] = 0 /\ cut[n] = Len(l)
               /\ \A i \in 1..n : cut[i - 1] <= cut[i]
               /\ workflow = WorkflowOf(n, NeedsTableOf(n, {<<i, i + 1>> : i \in 1..(n - 1)}),
                                        StepTable(n, l, cut))
    /\ file_content = workflow
    /\ NothingCalled

(* Job maps of up to MaxSharedJobs jobs and MaxSharedDeps declared         *)
(* dependencies followed by one more name that is bound to the record of   *)
(* one of them (`d: *c` in the file): two names, one object.               *)
InitShared ==
    /\ \E n \in 1..MaxSharedJobs :
         \E t \in NeedsTables(n + 1, n, MaxSharedDeps) :
            \E i \in 1..n :
               LET wf == WorkflowOf(n, t, [x \in 1..n |-> <<>>])
               IN workflow = Append(wf, [wf[i] EXCEPT !.name = Names[n + 1]])
    /\ platform \in Platforms
    /\ file_content = workflow
    /\ NothingCalled

(* The contents a fix may be applied to when the job map wf was parsed     *)
(* earlier: the text wf was parsed from, and texts that have changed since *)
(* in their last job, which is gone or is no longer a mapping.             *)
FixContents(wf) ==
    {wf} \cup
      (IF wf = <<>> THEN {}
       ELSE LET front == SubSeq(wf, 1, Len(wf) - 1)
                last == wf[Len(wf)]
            IN {front} \cup
                 {Append(front, [last EXCEPT !.shape = sh, !.needs = Absent]) :
                    sh \in {"sequence", "other"}})

(* Job maps of up to MaxFixJobs jobs and MaxFixDeps declared dependencies, *)
(* cycles included, and acyclic job maps of up to MaxFixChainJobs jobs and *)
(* MaxFixChainDeps declared dependencies, whose jobs need only jobs        *)
(* declared before them (enough for two jobs with redundant dependencies); *)
(* no name repeated or dangling, every job without steps, on either        *)
(* platform, with each content the fix may be applied to.                  *)
InitFix ==
    /\ \/ \E n \in 0..MaxFixJobs :
            \E E \in SubsetsUpTo((1..n) \X (1..n), MaxFixDeps) :
               workflow = WorkflowOf(n, NeedsTableOf(n, E), [i \in 1..n |-> <<>>])
       \/ \E n \in 0..MaxFixChainJobs :
            \E E \in SubsetsUpTo({e \in (1..n) \X (1..n) : e[1] < e[2]},
                                 MaxFixChainDeps) :
               workflow = WorkflowOf(n, NeedsTableOf(n, E), [i \in 1..n |-> <<>>])
    /\ file_content \in FixContents(workflow)
    /\ platform \in Platforms
    /\ NothingCalled

(* analyze_workflow(workflow_data, platform) *)
AnalyzeWorkflow ==
    /\ analysis.status = "none"
    /\ analysis' = AnalyzeWorkflowFrame(workflow, platform)
    /\ UNCHANGED <<workflow, file_content, platform, schedule, optimization, rerun>>

(* The scheduling methods called one by one on the graph of the job map:   *)
(* stages, critical path, serial time and, when there are stages, parallel *)
(* time.                                                                   *)
CalculateSchedule ==
    /\ ~ schedule.called
    /\ LET jobs == ExtractJobs(workflow, platform)
           graph == BuildDependencyGraph(jobs)
           stages == CalculateExecutionStages(graph)
       IN schedule' =
            [called |-> TRUE,
             stages |-> stages,
             critical_path |-> FindCriticalPath(graph, jobs),
             total_serial_time |-> CalculateSerialTime(jobs),
             optimal_parallel_time |->
                 IF stages.raised = "none"
                 THEN CalculateParallelTime(jobs, stages.value) ELSE 0]
    /\ UNCHANGED <<workflow, file_content, platform, analysis, optimization, rerun>>

(* optimize_parallelization(content, workflow_data, platform), called with *)
(* the job map parsed earlier and the content the fix is applied to        *)
(* (main.py:390-391); the job map is the caller's object, so what the call *)
(* did to it stays.                                                        *)
Optimize ==
    /\ ~ optimization.called
    /\ optimization' =
          [called |-> TRUE] @@ OptimizeParallelization(file_content, workflow, platform)
    /\ workflow' = optimization'.workflow_data
    /\ UNCHANGED <<file_content, platform, analysis, schedule, rerun>>

(* The optimizer run again on the content it returned, parsed anew.        *)
OptimizeAgain ==
    /\ optimization.called
    /\ ~ rerun.called
    /\ rerun' = [called |-> TRUE]
                  @@ OptimizeParallelization(optimization.content, optimization.content,
                                             platform)
    /\ UNCHANGED <<workflow, file_content, platform, analysis, schedule, optimization>>

(* The optimizer on a job map, then on its own output.                     *)
Next == Optimize \/ OptimizeAgain

Spec == Init /\ [][Next]_vars

(* The analysis of a job map.                                              *)
NextAnalysis == AnalyzeWorkflow

SpecAnalysis == Init /\ [][NextAnalysis]_vars

(* An analysis and an optimization of the same job map, in either order.   *)
NextInterleaved == AnalyzeWorkflow \/ Optimize

SpecInterleaved == InitInterleaved /\ [][NextInterleaved]_vars

(* The same on job maps in every form.                                     *)
SpecForms == InitForms /\ [][NextInterleaved]_vars

(* The analysis of a job map of more jobs.                                 *)
SpecWide == InitWide /\ [][NextAnalysis]_vars

(* The scheduling methods on a job map with weighted jobs.                 *)
NextSchedule == CalculateSchedule

SpecSchedule == InitSchedule /\ [][NextSchedule]_vars

(* The analysis of a job map whose jobs have steps.                        *)
SpecSteps == InitSteps /\ [][NextAnalysis]_vars

(* The optimizer on a job map in which two names share one record.         *)
SpecShared == InitShared /\ [][Next]_vars

(* The optimizer applied as a fix to a content that may have changed since *)
(* the job map was parsed.                                                 *)
NextFix == Optimize

SpecFix == InitFix /\ [][NextFix]_vars

-----------------------------------------------------------------------------
(* What the properties are stated over *)

(* The Job objects and the graph the analyzer derives from the job map.    *)
StateJobs == ExtractJobs(workflow, platform)

StateGraph == BuildDependencyGraph(StateJobs)

(* The graph the optimizer builds from the job map it is given, and the   *)
(* graph it would build from the job map it returned.                      *)
OriginalGraph == BuildGraphOn(platform, workflow)

RewrittenGraph == BuildGraphOn(platform, optimization.content)

(* The needs of job n as the optimizer reads them from a job map.          *)
NeedsIn(wf, n) == NeedsListOn(platform, JobOf(wf, n))

(* D: the direct-dependency set of job n, its predecessors in the graph    *)
(* the optimizer builds: the declared needs that are nodes of that graph   *)
(* (its nodes are the jobs of JobsOn).                                     *)
DirectDeps(n) == Range(NeedsIn(workflow, n)) \cap JobSet(JobsOn(platform, workflow))

(* R(n): the direct dependencies of n that are an ancestor of another      *)
(* direct dependency of n, on the original graph.                          *)
ImpliedDeps(n) ==
    {d2 \in DirectDeps(n) :
        \E d1 \in DirectDeps(n) : d1 # d2 /\ Reaches(OriginalGraph, d2, d1)}

(* Acyclicity, stated on paths: no job reaches itself.                     *)
Acyclic(g) == \A n \in NodeSet(g) : ~ Reaches(g, n, n)

(* The index of the stage that holds job n.                                *)
StageIndex(stages, n) ==
    CHOOSE k \in 1..Len(stages) : \E i \in 1..Len(stages[k]) : stages[k][i] = n

(* The directed paths of a graph: sequences of distinct nodes joined by    *)
(* edges, a single node included.                                          *)
DirectedPaths(g) ==
    {p \in UNION {[1..m -> NodeSet(g)] : m \in 1..Cardinality(NodeSet(g))} :
        /\ \A i, j \in 1..Len(p) : i # j => p[i] # p[j]
        /\ \A i \in 1..(Len(p) - 1) : HasEdge(g, p[i], p[i + 1])}

PathWeight(jobs, path) ==
    SumSeq([i \in 1..Len(path) |-> Weight(JobByName(jobs, path[i]))])

(* Every two distinct jobs are ordered by reachability.                    *)
LinearChain(g) ==
    \A u, v \in NodeSet(g) : u # v => Reaches(g, u, v) \/ Reaches(g, v, u)

-----------------------------------------------------------------------------
(* C1: on an acyclic job map the execution stages are returned, every job  *)
(* is in exactly one stage, a stage holds only jobs, and for every edge    *)
(* u -> v the stage of u comes strictly before the stage of v.             *)
C1_StagesPartitionAndOrder ==
    (schedule.called /\ Acyclic(StateGraph)) =>
        LET stages == schedule.stages.value IN
        /\ schedule.stages.raised = "none"
        /\ \A n \in NodeSet(StateGraph) :
              Cardinality({ki \in (1..Len(stages)) \X (1..Len(workflow)) :
                              ki[2] <= Len(stages[ki[1]]) /\ stages[ki[1]][ki[2]] = n}) = 1
        /\ \A k \in 1..Len(stages) : Range(stages[k]) \subseteq NodeSet(StateGraph)
        /\ \A e \in Edges(StateGraph) :
              StageIndex(stages, e[1]) < StageIndex(stages, e[2])

(* An acyclic map whose stages are several, one of them holding two jobs.  *)
C1_Witness ==
    /\ schedule.called /\ Acyclic(StateGraph)
    /\ Len(schedule.stages.value) >= 2
    /\ \E k \in 1..Len(schedule.stages.value) : Len(schedule.stages.value[k]) >= 2

(* C2: on a job map with a cycle (a self-dependency included) stage        *)
(* computation returns the empty list and critical-path computation        *)
(* returns the empty list, and neither raises.                             *)
C2_CycleGivesEmptyResults ==
    (schedule.called /\ ~ Acyclic(StateGraph)) =>
        /\ schedule.stages.raised = "none"
        /\ schedule.stages.value = <<>>
        /\ schedule.critical_path.raised = "none"
        /\ schedule.critical_path.value = <<>>

(* C3: whenever stages are computed, parallel time is at most serial time, *)
(* and they are equal exactly when every stage holds one job.              *)
C3_ParallelAtMostSerial ==
    (schedule.called /\ schedule.stages.raised = "none") =>
        /\ schedule.optimal_parallel_time <= schedule.total_serial_time
        /\ (schedule.optimal_parallel_time = schedule.total_serial_time)
              <=> (\A k \in 1..Len(schedule.stages.value) :
                      Len(schedule.stages.value[k]) = 1)

(* A stage of two jobs with different weights, so parallel < serial.       *)
C3_Witness ==
    /\ schedule.called /\ schedule.stages.raised = "none"
    /\ schedule.optimal_parallel_time < schedule.total_serial_time
    /\ \E k \in 1..Len(schedule.stages.value) :
          /\ Len(schedule.stages.value[k]) = 2
          /\ Weight(JobByName(StateJobs, schedule.stages.value[k][1]))
                # Weight(JobByName(StateJobs, schedule.stages.value[k][2]))

(* C4: on an acyclic job map the weights on the critical path sum to the   *)
(* serial time exactly when every two distinct jobs are ordered by         *)
(* reachability.                                                           *)
C4_CriticalPathEqualsSerialIffChain ==
    (schedule.called /\ Acyclic(StateGraph)) =>
        /\ schedule.critical_path.raised = "none"
        /\ (PathWeight(StateJobs, schedule.critical_path.value)
                = schedule.total_serial_time) <=> LinearChain(StateGraph)

(* A chain of three jobs of different weights, with the shortcut edge.     *)
C4_Witness ==
    /\ schedule.called /\ Acyclic(StateGraph) /\ LinearChain(StateGraph)
    /\ Len(workflow) = 3
    /\ Len(schedule.critical_path.value) = 3
    /\ \E i, j \in 1..3 : Weight(StateJobs[i]) # Weight(StateJobs[j])

(* C5: on a non-empty acyclic job map the critical path is a directed path *)
(* from a job without predecessors to a job without successors, and the    *)
(* sum of the weights of its jobs is at least that of every directed path. *)
C5_CriticalPathIsHeaviest ==
    (schedule.called /\ Acyclic(StateGraph) /\ Len(workflow) > 0) =>
        LET path == schedule.critical_path.value IN
        /\ path \in DirectedPaths(StateGraph)
        /\ InDegree(StateGraph, path[1]) = 0
        /\ OutDegree(StateGraph, path[Len(path)]) = 0
        /\ \A p \in DirectedPaths(StateGraph) :
              PathWeight(StateJobs, p) <= PathWeight(StateJobs, path)

(* C6: the optimizer run on the job map it returned removes no dependency  *)
(* (it returns that job map again) and reports no change.                  *)
C6_OptimizerIdempotent ==
    rerun.called =>
        /\ rerun.changes = <<>>
        /\ rerun.content = optimization.content
        /\ \A n \in JobSet(workflow) :
              NeedsIn(rerun.content, n) = NeedsIn(optimization.content, n)

(* A first run that removed a dependency, followed by the second run.      *)
C6_Witness ==
    /\ rerun.called
    /\ optimization.changes # <<>>
    /\ optimization.content # workflow

(* C7: the MissingDependency issues are exactly one per pair of a job and  *)
(* a dangling name it declares, their number is the number of such pairs,  *)
(* and no edge of the graph starts at a name that is not a job.            *)
C7_OneIssuePerDanglingName ==
    (analysis.status # "none") =>
        LET issues == analysis.dependency_issues.missing
            pairs == {p \in JobSet(workflow) \X {Dangling} :
                        p[2] \in Range(JobByName(analysis.jobs, p[1]).needs)}
        IN /\ Len(issues) = Cardinality(pairs)
           /\ {<<issues[i].job, issues[i].missing>> : i \in 1..Len(issues)} = pairs
           /\ Dangling \notin NodeSet(analysis.graph)
           /\ \A e \in Edges(analysis.graph) : e[1] \in JobSet(workflow)

(* C8: a RedundantDependency issue is reported for job n and dependency d2 *)
(* exactly when d2 is a direct dependency of n and an ancestor of another  *)
(* direct dependency of n, and it lists all the direct dependencies d1 of  *)
(* n that have d2 as an ancestor.                                          *)
C8_RedundantIssueNamesImpliedEdge ==
    (analysis.status # "none") =>
        LET g == analysis.graph
            D(n) == Range(g.pred[n])
            implied_by(n, d2) == {d1 \in D(n) \ {d2} : Reaches(g, d2, d1)}
        IN analysis.dependency_issues.redundant =
              {[job |-> e[1], dependency |-> e[2],
                redundant_with |-> implied_by(e[1], e[2])] :
                 e \in {x \in NodeSet(g) \X NodeSet(g) :
                          x[2] \in D(x[1]) /\ implied_by(x[1], x[2]) # {}}}

(* C9: on an acyclic job map the optimizer leaves every job n with its     *)
(* original needs minus R(n), and the change-log holds one entry for each  *)
(* job with a non-empty R(n), listing R(n), and no other entry.            *)
C9_NeedsRewrittenMinusImplied ==
    (optimization.called /\ Acyclic(OriginalGraph)) =>
        LET changes == optimization.changes
            changed == {n \in JobSet(workflow) : ImpliedDeps(n) # {}}
        IN /\ \A n \in JobSet(workflow) :
                /\ Range(NeedsIn(optimization.content, n))
                      = Range(NeedsIn(workflow, n)) \ ImpliedDeps(n)
                /\ ImpliedDeps(n) = {} =>
                      NeedsIn(optimization.content, n) = NeedsIn(workflow, n)
           /\ Len(changes) = Cardinality(changed)
           /\ \A n \in changed :
                \E i \in 1..Len(changes) :
                    changes[i].job = n /\ changes[i].removed = ImpliedDeps(n)

(* C10: on either platform, job v is reachable from job u in the graph of  *)
(* the rewritten job map exactly when it is in the graph of the original.  *)
C10_ReachabilityPreserved ==
    optimization.called =>
        \A u, v \in JobSet(workflow) :
            Reaches(RewrittenGraph, u, v) <=> Reaches(OriginalGraph, u, v)

(* C11: every dependency d2 the optimizer removed from job n is an         *)
(* ancestor of a direct dependency of n, other than d2, that n still       *)
(* declares after the removals.                                            *)
C11_RemovalKeepsAWitness ==
    optimization.called =>
        \A n \in JobSet(workflow) :
            LET remaining == Range(NeedsIn(optimization.content, n)) \cap JobSet(workflow)
            IN \A d2 \in DirectDeps(n) \ remaining :
                  \E d1 \in remaining : d1 # d2 /\ Reaches(OriginalGraph, d2, d1)

(* C12: the CircularDependency issues are closed walks of the graph that   *)
(* visit no job twice, every such walk (a self-dependency included) is     *)
(* reported by exactly one issue, up to the job it starts at, and an       *)
(* acyclic graph gives no such issue.                                      *)
C12_OneIssuePerSimpleCycle ==
    (analysis.status # "none") =>
        LET g == analysis.graph
            reported == analysis.dependency_issues.circular
            Closed(p) ==
                /\ \A i, j \in 1..Len(p) : i # j => p[i] # p[j]
                /\ \A i \in 1..Len(p) : HasEdge(g, p[i], p[(i % Len(p)) + 1])
            cycles == {p \in UNION {[1..m -> NodeSet(g)] :
                                      m \in 1..Cardinality(NodeSet(g))} : Closed(p)}
            Rotation(p, q) ==
                /\ Len(p) = Len(q)
                /\ \E k \in 0..(Len(p) - 1) :
                      \A i \in 1..Len(p) : q[i] = p[((i - 1 + k) % Len(p)) + 1]
        IN /\ Acyclic(g) => reported = {}
           /\ reported \subseteq cycles
           /\ \A p \in cycles : Cardinality({c \in reported : Rotation(p, c)}) = 1

(* x:[y], y:[x]: one issue, with members {x, y}.                           *)
C12_Witness ==
    /\ analysis.status # "none"
    /\ Len(workflow) = 2
    /\ analysis.jobs[1].needs = <<"b">> /\ analysis.jobs[2].needs = <<"a">>
    /\ Cardinality(analysis.dependency_issues.circular) = 1
    /\ \A c \in analysis.dependency_issues.circular : Range(c) = {"a", "b"}

(* C13: the analysis of any job map, cyclic or not, returns, and the       *)
(* issues it returns name every dangling reference of every job and every  *)
(* job that lies on a cycle.                                               *)
C13_StructuralIssuesReachCaller ==
    (analysis.status # "none") =>
        /\ analysis.status = "returned"
        /\ "dependency_issues" \in analysis.assigned
        /\ \A i \in 1..Len(StateJobs) :
              \A d \in Range(StateJobs[i].needs) \ JobSet(workflow) :
                 \E k \in 1..Len(analysis.dependency_issues.missing) :
                    analysis.dependency_issues.missing[k] =
                        [job |-> StateJobs[i].name, missing |-> d]
        /\ \A n \in NodeSet(StateGraph) :
              Reaches(StateGraph, n, n) =>
                 \E c \in analysis.dependency_issues.circular : n \in Range(c)

(* The jobs that declare job d among their needs.                          *)
Dependents(d) ==
    {StateJobs[i].name : i \in {k \in 1..Len(StateJobs) : d \in Range(StateJobs[k].needs)}}

(* C14: on an acyclic job map a job is in the bottleneck list exactly when *)
(* at least 3 jobs depend on it, or it is alone in its stage and some job  *)
(* depends on it; and the list holds no job twice.                         *)
C14_BottlenecksExactlyOnce ==
    (analysis.status # "none" /\ Acyclic(StateGraph)) =>
        LET b == analysis.bottlenecks
            stages == analysis.execution_stages
            Alone(n) == \E k \in 1..Len(stages) : stages[k] = <<n>>
        IN /\ "bottlenecks" \in analysis.assigned
           /\ \A n \in JobSet(workflow) :
                 (n \in Range(b)) <=>
                    \/ Cardinality(Dependents(n)) >= 3
                    \/ Alone(n) /\ Dependents(n) # {}
           /\ \A i, j \in 1..Len(b) : i # j => b[i] # b[j]

(* A job that three jobs depend on and that is alone in the first stage.   *)
C14_Witness ==
    /\ analysis.status # "none" /\ Acyclic(StateGraph)
    /\ Len(workflow) = 4
    /\ Dependents("a") = {"b", "c", "d"}
    /\ analysis.execution_stages[1] = <<"a">>
    /\ analysis.bottlenecks = <<"a">>

(* C15: the analysis of an acyclic job map returns, and its                *)
(* ParallelizeIndependentJobs suggestions are exactly the pairs of         *)
(* independent jobs of one stage, the last stage included, that share no   *)
(* descendant.                                                             *)
C15_SuggestionPerIndependentPair ==
    (analysis.status # "none" /\ Acyclic(StateGraph)) =>
        /\ analysis.status = "returned"
        /\ LET g == StateGraph
               stages == CalculateExecutionStages(StateGraph).value
               independent ==
                   {q \in NodeSet(g) \X NodeSet(g) :
                       /\ IndexIn(Names, q[1]) < IndexIn(Names, q[2])
                       /\ \E k \in 1..Len(stages) :
                             /\ q[1] \in Range(stages[k]) /\ q[2] \in Range(stages[k])
                             /\ \A m \in Range(stages[k]) :
                                   ~ HasEdge(g, m, q[1]) /\ ~ HasEdge(g, m, q[2])
                       /\ ~ \E x \in NodeSet(g) : Reaches(g, q[1], x) /\ Reaches(g, q[2], x)}
           IN {s.jobs : s \in {x \in analysis.suggestions :
                                   x.type = "parallelize_independent_jobs"}}
                 = {<<q[1], q[2]>> : q \in independent}

(* C16: the analysis of an acyclic job map returns; it holds a             *)
(* LongDependencyChain suggestion exactly when some directed path has more *)
(* than 4 jobs, at most one, and its path is such a path.                  *)
C16_LongChainSuggestion ==
    (analysis.status # "none" /\ Acyclic(StateGraph)) =>
        LET long == {s \in analysis.suggestions : s.type = "long_dependency_chain"}
        IN /\ analysis.status = "returned"
           /\ (long # {}) <=> (\E p \in DirectedPaths(StateGraph) : Len(p) > 4)
           /\ Cardinality(long) <= 1
           /\ \A s \in long : s.path \in DirectedPaths(StateGraph) /\ Len(s.path) > 4

(* C19: the analysis of an acyclic job map runs every pass and returns a   *)
(* result with stages, critical path, bottlenecks, issues, suggestions and *)
(* both times, whatever advisory findings the job map gives rise to.       *)
C19_AdvisoryFindingsNeverBlock ==
    (analysis.status # "none" /\ Acyclic(StateGraph)) =>
        /\ analysis.raised = "none"
        /\ {"execution_stages", "critical_path", "bottlenecks", "dependency_issues",
            "suggestions", "total_serial_time", "optimal_parallel_time"}
              \subseteq analysis.assigned

(* C17: an optimize call leaves the job map it was given as it was, so the *)
(* analysis of the job map is the same after the call as before it, and an *)
(* analysis made at any point is the analysis of the job map as it is.     *)
C17_OptimizeLeavesJobMap ==
    /\ [][(optimization'.called /\ ~ optimization.called) =>
              /\ workflow' = workflow
              /\ AnalyzeWorkflowFrame(workflow', platform')
                    = AnalyzeWorkflowFrame(workflow, platform)]_vars
    /\ [](analysis.status # "none" =>
              analysis = AnalyzeWorkflowFrame(workflow, platform))

(* An analysis and an optimize call that removed a dependency, both made.  *)
C17_Witness ==
    /\ analysis.status # "none"
    /\ optimization.called
    /\ optimization.changes # <<>>
    /\ optimization.content # workflow

(* The normalisation invariants: every job record is a mapping, its needs  *)
(* declaration is absent or a name string, a list or a mapping, and a list *)
(* holds only name strings and entries with a `job` field.                 *)
WellFormed(wf) ==
    \A i \in 1..Len(wf) :
        /\ wf[i].shape = "dict"
        /\ wf[i].needs.form \in {"absent", "str", "list", "dict"}
        /\ \A k \in 1..Len(wf[i].needs.items) :
              wf[i].needs.items[k].kind \in {"str", "job"}

(* C18: on a job map that violates the normalisation invariants the        *)
(* analysis is rejected before any job is extracted, and the optimizer     *)
(* returns no change computed from the rest of the job map.                *)
C18_ContractViolationsRejected ==
    (~ WellFormed(workflow)) =>
        /\ (analysis.status # "none") =>
              analysis.status = "raised" /\ "jobs" \notin analysis.assigned
        /\ optimization.called => optimization.changes = <<>>

(* The normalised declared dependencies of a job record: the name of the   *)
(* string form, the names and `job` fields of the list form, the keys of   *)
(* the mapping form; a list entry of any other kind is skipped, and a     *)
(* record that is not a mapping declares nothing.                          *)
DeclaredDeps(job) ==
    IF job.shape # "dict" THEN {}
    ELSE {job.needs.items[k].name :
            k \in {i \in 1..Len(job.needs.items) :
                     job.needs.items[i].kind \in {"str", "job"}}}

(* Node set = job names; edge d -> j exactly when j declares d and d is a  *)
(* job.                                                                    *)
GraphInvariant(g, wf) ==
    /\ NodeSet(g) = JobSet(wf)
    /\ Range(g.nodes) \cup UNION {Range(g.pred[n]) \cup Range(g.succ[n]) : n \in NodeSet(g)}
          \subseteq JobSet(wf)
    /\ \A d, j \in JobSet(wf) :
          HasEdge(g, d, j) <=> d \in DeclaredDeps(JobOf(wf, j))

(* The job map of the workflow file: the entries of `jobs` on GitHub, the  *)
(* top-level entries other than those under a special key on GitLab.       *)
JobMap ==
    IF platform = "gitlab_ci"
    THEN SelectSeq(workflow, LAMBDA job : job.name \notin SpecialKeys)
    ELSE workflow

(* C20: for every job map in normalised form, the graph the analyzer       *)
(* builds and the graph the optimizer builds have the job names as nodes   *)
(* and an edge d -> j exactly when d is a job among the declared           *)
(* dependencies of j.                                                      *)
C20_GraphInvariant ==
    WellFormed(workflow) =>
        /\ (analysis.status # "none") => GraphInvariant(analysis.graph, JobMap)
        /\ optimization.called => GraphInvariant(OriginalGraph, JobMap)

-----------------------------------------------------------------------------
(* C21: the weight of a job is its estimated duration, the default of 60   *)
(* only when there is none, so a job whose estimated duration is 0 (an     *)
(* empty step list) contributes 0; serial time is the sum of these weights *)
(* over all jobs and parallel time the sum over the stages of the largest  *)
(* weight in the stage.                                                    *)
C21_WeightIsEstimatedDuration ==
    schedule.called =>
        LET jobs == StateJobs
            w(job) == IF job.estimated_duration.none THEN DefaultDuration
                      ELSE job.estimated_duration.value
            stages == schedule.stages.value
        IN /\ schedule.total_serial_time =
                 SumSeq([i \in 1..Len(jobs) |-> w(jobs[i])])
           /\ (schedule.stages.raised = "none") =>
                 schedule.optimal_parallel_time =
                    SumSeq([k \in 1..Len(stages) |->
                              SetMax({w(JobByName(jobs, stages[k][i])) :
                                         i \in 1..Len(stages[k])})])

-----------------------------------------------------------------------------
(* C22 as stated: the estimated duration of a job is 30 x its number of    *)
(* steps plus, per step, 30 for a setup/cache action reference, 60 for a   *)
(* package-manager install command, 120 for a build/test keyword in an     *)
(* action reference, 90 for a test keyword in a command text, and nothing  *)
(* for a step of none of these classes.                                    *)
C22_DurationByStatedClasses ==
    (analysis.status # "none" /\ platform = "github_actions") =>
        LET bonus(step) ==
                IF step.uses \cap {"setup-", "cache"} # {} THEN 30
                ELSE IF step.run \cap {"npm install", "yarn install"} # {} THEN 60
                ELSE IF step.uses \cap {"build", "test"} # {} THEN 120
                ELSE IF "test" \in step.run THEN 90
                ELSE 0
        IN \A i \in 1..Len(analysis.jobs) :
              LET steps == analysis.jobs[i].steps IN
              analysis.jobs[i].estimated_duration.value =
                 30 * Len(steps) + SumSeq([k \in 1..Len(steps) |-> bonus(steps[k])])

(* C22, amended: the estimated duration of a job is 30 x its number of     *)
(* steps plus, per step that is a mapping, the bonus of the first class    *)
(* that matches: with an action reference, 30 for a setup/cache keyword,   *)
(* else 120 for a build/test keyword; without an action reference but with *)
(* a command, 60 for a package-manager install, else 120 for a build       *)
(* keyword, else 90 for a test keyword; nothing otherwise.  Two jobs with  *)
(* the same step list have the same estimate.                              *)
C22_DurationByFirstMatchingClass ==
    (analysis.status # "none" /\ platform = "github_actions") =>
        LET inAction(step, words) ==
                step.shape = "dict" /\ "uses" \in step.keys /\ step.uses \cap words # {}
            inCommand(step, words) ==
                /\ step.shape = "dict" /\ "uses" \notin step.keys
                /\ "run" \in step.keys /\ step.run \cap words # {}
            bonus(step) ==
                CASE inAction(step, {"setup-", "cache"}) -> 30
                  [] inAction(step, {"build", "test"})
                       /\ ~ inAction(step, {"setup-", "cache"}) -> 120
                  [] inCommand(step, {"npm install", "yarn install"}) -> 60
                  [] inCommand(step, {"build"})
                       /\ ~ inCommand(step, {"npm install", "yarn install"}) -> 120
                  [] inCommand(step, {"test"})
                       /\ ~ inCommand(step, {"npm install", "yarn install", "build"}) -> 90
                  [] OTHER -> 0
        IN /\ \A i \in 1..Len(analysis.jobs) :
                 LET steps == analysis.jobs[i].steps IN
                 /\ ~ analysis.jobs[i].estimated_duration.none
                 /\ analysis.jobs[i].estimated_duration.value =
                       30 * Len(steps) + SumSeq([k \in 1..Len(steps) |-> bonus(steps[k])])
           /\ \A i, j \in 1..Len(analysis.jobs) :
                 analysis.jobs[i].steps = analysis.jobs[j].steps =>
                    analysis.jobs[i].estimated_duration = analysis.jobs[j].estimated_duration

(* A job with a build command and a setup action, estimated at 210, next   *)
(* to a job with the same two steps in the other order.                    *)
C22_Witness ==
    /\ analysis.status # "none" /\ platform = "github_actions"
    /\ Len(analysis.jobs) = 2
    /\ analysis.jobs[1].steps = <<Step("dict", {"run"}, {}, {"build"}, {}),
                                  Step("dict", {"uses"}, {"setup-"}, {}, {})>>
    /\ analysis.jobs[1].estimated_duration.value = 210
    /\ analysis.jobs[2].steps = <<>>

-----------------------------------------------------------------------------
(* C23 as stated: can_parallelize of a job is false exactly when the       *)
(* serialised text of at least one of its steps contains "deploy" or       *)
(* "release" (case-insensitively); it is true for every other job, a job   *)
(* with no steps included.                                                 *)
C23_CanParallelizeIffNoDeployOrRelease ==
    (analysis.status # "none" /\ platform = "github_actions") =>
        \A i \in 1..Len(analysis.jobs) :
           LET job == analysis.jobs[i] IN
           /\ job.can_parallelize = FALSE <=>
                 \E k \in 1..Len(job.steps) :
                    "deploy" \in job.steps[k].text \/ "release" \in job.steps[k].text
           /\ job.steps = <<>> => job.can_parallelize = TRUE

(* C23, amended: can_parallelize of a job is false exactly when at least   *)
(* one of its steps is a mapping whose serialised text contains "deploy"   *)
(* or "release" (case-insensitively); a step that is not a mapping is not  *)
(* looked at, and the job is parallelizable in every other case, a job     *)
(* with no steps and every GitLab job included.                            *)
C23_CanParallelizeIffNoMappingStepMentions ==
    (analysis.status # "none") =>
        \A i \in 1..Len(analysis.jobs) :
           LET job == analysis.jobs[i] IN
           /\ job.can_parallelize = FALSE <=>
                 \E k \in 1..Len(job.steps) :
                    /\ job.steps[k].shape = "dict"
                    /\ "deploy" \in job.steps[k].text \/ "release" \in job.steps[k].text
           /\ job.steps = <<>> => job.can_parallelize = TRUE

(* A job whose only step is a bare string that mentions a deployment and   *)
(* which can be parallelized, needed by a job with a release step that is  *)
(* a mapping and which cannot.                                             *)
C23_Witness ==
    /\ analysis.status # "none" /\ Len(analysis.jobs) = 2
    /\ Len(analysis.jobs[1].steps) = 1
    /\ analysis.jobs[1].steps[1].shape = "other"
    /\ analysis.jobs[1].steps[1].text = {"deploy"}
    /\ analysis.jobs[1].can_parallelize
    /\ Len(analysis.jobs[2].steps) = 1
    /\ analysis.jobs[2].steps[1].shape = "dict"
    /\ analysis.jobs[2].steps[1].text = {"release"}
    /\ ~ analysis.jobs[2].can_parallelize

-----------------------------------------------------------------------------
(* C24: for a job map whose declarations are in the three forms (a name    *)
(* string, a list of name strings and entries with a `job` field, a        *)
(* mapping keyed by name), the analyzer and the optimizer derive the same  *)
(* set of dependency names for every job, and the graph the optimizer      *)
(* builds has the same edges as the graph the analyzer builds.             *)
C24_SameNormalisationEverywhere ==
    (WellFormed(workflow) /\ analysis.status # "none" /\ optimization.called) =>
        /\ \A i \in 1..Len(analysis.jobs) :
              Range(analysis.jobs[i].needs) = Range(NeedsIn(workflow, analysis.jobs[i].name))
        /\ Edges(analysis.graph) = Edges(OriginalGraph)

-----------------------------------------------------------------------------
(* C25: when several jobs tie for the largest longest-path distance, the   *)
(* critical path ends at the tied job that comes first in the topological  *)
(* order the computation uses.                                             *)
C25_TieGoesToFirstInTopologicalOrder ==
    (analysis.status # "none" /\ "critical_path" \in analysis.assigned
       /\ Len(analysis.graph.nodes) > 0) =>
        LET g == analysis.graph
            order == TopologicalSort(g).value
            dist == LongestDistances(g, analysis.jobs, order,
                       [distances    |-> [n \in NodeSet(g) |-> 0],
                        predecessors |-> [n \in NodeSet(g) |-> <<>>]]).distances
            best == SetMax({dist[n] : n \in NodeSet(g)})
            first == CHOOSE k \in 1..Len(order) :
                        /\ dist[order[k]] = best
                        /\ \A m \in 1..(k - 1) : dist[order[m]] # best
        IN analysis.critical_path[Len(analysis.critical_path)] = order[first]

-----------------------------------------------------------------------------
(* C26: on an acyclic job map the stages are the Kahn generations: stage k *)
(* holds exactly the jobs not in an earlier stage whose every predecessor  *)
(* is in an earlier stage; so the first stage is the set of jobs without   *)
(* predecessor, every job of a later stage has a direct predecessor in the *)
(* stage just before, no stage is empty, and declaring the jobs in any     *)
(* other order, with every needs list reversed, gives the same stages up   *)
(* to the order inside a stage.                                            *)
C26_StagesAreKahnGenerations ==
    (schedule.called /\ Acyclic(StateGraph)) =>
        LET g == StateGraph
            stages == schedule.stages.value
            preds(n) == {e[1] : e \in {x \in Edges(g) : x[2] = n}}
            placed(k) == UNION {Range(stages[m]) : m \in 1..(k - 1)}
            n == Len(workflow)
            reversed(needs) ==
                [needs EXCEPT !.items =
                    [i \in 1..Len(needs.items) |-> needs.items[Len(needs.items) + 1 - i]]]
            redeclared(p) ==
                [i \in 1..n |-> [workflow[p[i]] EXCEPT !.needs = reversed(@)]]
            orders == {p \in [1..n -> 1..n] : \A i, j \in 1..n : p[i] = p[j] => i = j}
        IN /\ schedule.stages.raised = "none"
           /\ \A k \in 1..Len(stages) :
                 /\ Range(stages[k]) =
                       {j \in NodeSet(g) \ placed(k) : preds(j) \subseteq placed(k)}
                 /\ stages[k] # <<>>
                 /\ k > 1 => \A j \in Range(stages[k]) :
                                preds(j) \cap Range(stages[k - 1]) # {}
           /\ NodeSet(g) # {} =>
                 Range(stages[1]) = {j \in NodeSet(g) : preds(j) = {}}
           /\ \A p \in orders :
                 LET other == CalculateExecutionStages(
                                 BuildDependencyGraph(ExtractJobs(redeclared(p), platform)))
                 IN /\ other.raised = "none"
                    /\ [k \in 1..Len(other.value) |-> Range(other.value[k])]
                          = [k \in 1..Len(stages) |-> Range(stages[k])]

(* Two jobs without predecessor and a job that needs both: two stages, the *)
(* first holding two jobs.                                                 *)
C26_Witness ==
    /\ schedule.called /\ Acyclic(StateGraph)
    /\ Len(workflow) = 3
    /\ Edges(StateGraph) = {<<"a", "c">>, <<"b", "c">>}
    /\ schedule.stages.value = <<<<"a", "b">>, <<"c">>>>

-----------------------------------------------------------------------------
(* C27: when the GitHub optimizer has looked for groups, the groups it     *)
(* flags besides the stages of two or more jobs are the classes of jobs    *)
(* whose dependency-name sets are equal as sets (order and repetition of   *)
(* the names set aside): every such class of two or more jobs is flagged,  *)
(* nothing else is, and no two flagged groups hold the same set of jobs.   *)
C27_GroupsBySetEquality ==
    (optimization.called /\ platform = "github_actions"
       /\ optimization.caught = "none") =>
        LET groups == optimization.parallelizable_jobs
            flagged == {Range(groups[i]) : i \in 1..Len(groups)}
            deps(n) == Range(NeedsIn(workflow, n))
            classes == {{m \in JobSet(workflow) : deps(m) = deps(n)} :
                          n \in JobSet(workflow)}
            stages == CalculateExecutionStages(OriginalGraph).value
            levels == {Range(stages[k]) : k \in 1..Len(stages)}
        IN /\ \A c \in classes : Cardinality(c) >= 2 => c \in flagged
           /\ \A f \in flagged : f \in classes \/ f \in levels
           /\ \A i, j \in 1..Len(groups) :
                 Range(groups[i]) = Range(groups[j]) => i = j

-----------------------------------------------------------------------------
(* C28: the step of the GitHub optimizer that removes edges inside a       *)
(* flagged group never changes anything: when the run reaches it no        *)
(* flagged group has an edge between two of its members, no change of type *)
(* enable_parallelization is ever emitted, every change is the removal of  *)
(* redundant dependencies, and every name a job has lost is listed in the  *)
(* change of that job (of a job bound to the same mapping, when two names  *)
(* of the job map are bound to one).                                       *)
C28_IntraGroupStepNeverActs ==
    optimization.called =>
        LET changes == optimization.changes
            groups == optimization.parallelizable_jobs
            removed(n) == UNION {changes[i].removed :
                                   i \in {k \in 1..Len(changes) :
                                            SameObject(workflow, changes[k].job, n)}}
        IN /\ \A i \in 1..Len(groups) :
                 \A u, v \in Range(groups[i]) : ~ HasEdge(OriginalGraph, u, v)
           /\ \A i \in 1..Len(changes) :
                 /\ changes[i].type = "remove_redundant_dependency"
                 /\ changes[i].type # "enable_parallelization"
           /\ \A n \in JobSet(workflow) :
                 Range(NeedsIn(workflow, n)) \ Range(NeedsIn(optimization.content, n))
                    = removed(n)

(* A GitHub run that reached the step with a flagged group of two jobs     *)
(* that share their one dependency.                                        *)
C28_Witness ==
    /\ optimization.called /\ platform = "github_actions"
    /\ optimization.caught = "none"
    /\ <<"b", "c">> \in Range(optimization.parallelizable_jobs)
    /\ HasEdge(OriginalGraph, "a", "b") /\ HasEdge(OriginalGraph, "a", "c")
    /\ optimization.changes = <<>>

-----------------------------------------------------------------------------
(* C29: the GitHub optimizer is all-or-nothing: whenever a step of it      *)
(* fails, before or after it has rewritten a job, it returns the content   *)
(* it was given and an empty change-log; on every job map with a cycle it  *)
(* fails, redundant dependencies or not, whereas the GitLab optimizer on a *)
(* job map with a cycle removes the redundant dependencies of the jobs the *)
(* content holds and logs the removals (it fails on no content that is the *)
(* text of the job map).                                                   *)
C29_GithubAllOrNothing ==
    optimization.called =>
        LET redundant == {n \in JobSet(workflow) : ImpliedDeps(n) # {}}
            held == {n \in redundant \cap JobSet(file_content) :
                       JobOf(file_content, n).shape = "dict"}
        IN
        /\ optimization.caught # "none" =>
              optimization.content = file_content /\ optimization.changes = <<>>
        /\ (platform = "github_actions" /\ ~ Acyclic(OriginalGraph)) =>
              /\ optimization.caught # "none"
              /\ optimization.content = file_content
              /\ optimization.changes = <<>>
        /\ (platform = "gitlab_ci" /\ ~ Acyclic(OriginalGraph)) =>
              /\ file_content = workflow => optimization.caught = "none"
              /\ optimization.caught = "none" =>
                    /\ \A i \in 1..Len(optimization.changes) :
                          optimization.changes[i].job \in held
                    /\ \A n \in held :
                          \E i \in 1..Len(optimization.changes) :
                              SameObject(workflow, optimization.changes[i].job, n)
                    /\ held # {} => optimization.content # file_content

(* A GitHub run on a job map with a cycle and a redundant dependency: the  *)
(* content comes back unchanged.                                           *)
C29_Witness ==
    /\ optimization.called /\ platform = "github_actions"
    /\ ~ Acyclic(OriginalGraph)
    /\ \E n \in JobSet(workflow) : ImpliedDeps(n) # {}
    /\ optimization.caught = "NetworkXUnfeasible"
    /\ optimization.content = workflow
    /\ optimization.changes = <<>>

-----------------------------------------------------------------------------
(* C30: on an acyclic job map without dangling or repeated names the       *)
(* optimizer returns the transitive reduction: afterwards every job        *)
(* declares exactly its direct predecessors d for which the edge is the    *)
(* only path from d to the job, and the graph of the result has the same   *)
(* reachability as the original.                                           *)
C30_OutputIsTransitiveReduction ==
    (/\ optimization.called /\ Acyclic(OriginalGraph)
     /\ \A n \in JobSet(workflow) :
           /\ Range(NeedsIn(workflow, n)) \subseteq JobSet(workflow)
           /\ Len(NeedsIn(workflow, n)) = Cardinality(Range(NeedsIn(workflow, n)))) =>
        LET g == OriginalGraph
            otherPath(d, n) ==
                \E p \in DirectedPaths(g) :
                    Len(p) >= 3 /\ p[1] = d /\ p[Len(p)] = n
            kept(n) == {d \in NodeSet(g) : HasEdge(g, d, n) /\ ~ otherPath(d, n)}
        IN /\ \A n \in JobSet(workflow) :
                 /\ Range(NeedsIn(optimization.content, n)) = kept(n)
                 /\ Len(NeedsIn(optimization.content, n)) = Cardinality(kept(n))
           /\ Edges(RewrittenGraph) = {e \in Edges(g) : ~ otherPath(e[1], e[2])}
           /\ \A u, v \in NodeSet(g) : Reaches(RewrittenGraph, u, v) <=> Reaches(g, u, v)

(* build, test: [build], deploy: [build, test] has become a chain.         *)
C30_Witness ==
    /\ optimization.called
    /\ Edges(OriginalGraph) = {<<"a", "b">>, <<"a", "c">>, <<"b", "c">>}
    /\ \A n \in JobSet(workflow) :
          Len(NeedsIn(workflow, n)) = Cardinality(Range(NeedsIn(workflow, n)))
    /\ Edges(RewrittenGraph) = {<<"a", "b">>, <<"b", "c">>}
    /\ NeedsIn(optimization.content, "c") = <<"b">>

====
